---- MODULE Spec2Model ----
(***************************************************************************)
(* Model of the fortville-scraper pipelines.                               *)
(*                                                                         *)
(*   youtube_meeting_map.py : main -> fetch_videos_from_videos_tab ->      *)
(*       save_descriptions_to_files -> group_videos_with_short_addresses   *)
(*       -> create_map_with_meeting_types -> save                          *)
(*   main.py : index -> get_meeting_data -> create_map -> render_template  *)
(*                                                                         *)
(* Text is a sequence of one-character strings.  The two address patterns  *)
(* are regular expressions interpreted by a backtracking matcher that      *)
(* yields the end offsets of all ways to match, in the order Python's re   *)
(* module tries them; the first one is the match re takes.                 *)
(***************************************************************************)
EXTENDS Integers, Sequences, FiniteSets, TLC

----------------------------------------------------------------------------
(* Character classes of Python's re (ASCII part).                          *)

UpperSeq == << "A","B","C","D","E","F","G","H","I","J","K","L","M",
               "N","O","P","Q","R","S","T","U","V","W","X","Y","Z" >>
LowerSeq == << "a","b","c","d","e","f","g","h","i","j","k","l","m",
               "n","o","p","q","r","s","t","u","v","w","x","y","z" >>
Upper == { UpperSeq[k] : k \in DOMAIN UpperSeq }
Lower == { LowerSeq[k] : k \in DOMAIN LowerSeq }
Digit == { "0","1","2","3","4","5","6","7","8","9" }
Alpha == Upper \cup Lower
AlNum == Alpha \cup Digit
\* \w
WordCh == AlNum \cup { "_" }
\* \s
SpaceCh == { " ", "\t", "\n", "\r", "\f" }

\* both cases of a letter (re.IGNORECASE), any other character itself
BothCases(c) ==
    IF c \in Upper
    THEN { c, LowerSeq[CHOOSE k \in DOMAIN UpperSeq : UpperSeq[k] = c] }
    ELSE IF c \in Lower
    THEN { c, UpperSeq[CHOOSE k \in DOMAIN LowerSeq : LowerSeq[k] = c] }
    ELSE { c }

----------------------------------------------------------------------------
(* Regular expressions as data.                                            *)

Chr(S) == [t |-> "chr", set |-> S]
Cat(parts) == [t |-> "cat", parts |-> parts]
Alt(alts) == [t |-> "alt", alts |-> alts]
\* greedy repetition r{lo,hi}; hi = -1 is unbounded
Rep(r, lo, hi) == [t |-> "rep", r |-> r, lo |-> lo, hi |-> hi]
Opt(r) == Rep(r, 0, 1)
\* \b
WordBoundary == [t |-> "wb"]
Lit(str) == Cat([k \in DOMAIN str |-> Chr({str[k]})])
LitIgnoreCase(str) == Cat([k \in DOMAIN str |-> Chr(BothCases(str[k]))])

RECURSIVE ConcatAll(_)
ConcatAll(ss) ==
    IF ss = << >> THEN << >> ELSE Head(ss) \o ConcatAll(Tail(ss))

IsWordAt(s, k) == k >= 1 /\ k <= Len(s) /\ s[k] \in WordCh

\* End offsets (number of characters consumed from the start of s) of every
\* way re matches s starting at offset i, in backtracking order.
RECURSIVE Ends(_, _, _)
RECURSIVE EndsCat(_, _, _, _)
RECURSIVE EndsRep(_, _, _, _)
Ends(re, s, i) ==
    CASE re.t = "chr" ->
           IF i < Len(s) /\ s[i + 1] \in re.set THEN << i + 1 >> ELSE << >>
      [] re.t = "dot" ->
           IF i < Len(s) /\ s[i + 1] # "\n" THEN << i + 1 >> ELSE << >>
      [] re.t = "wb" ->
           IF IsWordAt(s, i) # IsWordAt(s, i + 1) THEN << i >> ELSE << >>
      [] re.t = "cat" -> EndsCat(re.parts, 1, s, i)
      [] re.t = "alt" ->
           ConcatAll([k \in DOMAIN re.alts |-> Ends(re.alts[k], s, i)])
      [] re.t = "rep" -> EndsRep(re, 0, s, i)

EndsCat(parts, k, s, i) ==
    IF k > Len(parts) THEN << i >>
    ELSE LET E == Ends(parts[k], s, i)
         IN  ConcatAll([j \in DOMAIN E |-> EndsCat(parts, k + 1, s, E[j])])

EndsRep(re, n, s, i) ==
    LET E == IF re.hi = -1 \/ n < re.hi THEN Ends(re.r, s, i) ELSE << >>
        more == ConcatAll([j \in DOMAIN E |->
                    IF E[j] > i THEN EndsRep(re, n + 1, s, E[j]) ELSE << >>])
        stop == IF n >= re.lo THEN << i >> ELSE << >>
    IN  more \o stop

\* re.findall(pattern, s) for a pattern without capturing groups
RECURSIVE FindallFrom(_, _, _)
FindallFrom(re, s, pos) ==
    IF pos > Len(s) THEN << >>
    ELSE LET E == Ends(re, s, pos)
         IN  IF E = << >> THEN FindallFrom(re, s, pos + 1)
             ELSE << SubSeq(s, pos + 1, E[1]) >>
                  \o FindallFrom(re, s, IF E[1] > pos THEN E[1] ELSE pos + 1)

Findall(re, s) == FindallFrom(re, s, 0)

\* re.split(pattern, s) for a pattern without capturing groups
RECURSIVE SplitFrom(_, _, _, _)
SplitFrom(re, s, pos, start) ==
    IF pos > Len(s) THEN << SubSeq(s, start + 1, Len(s)) >>
    ELSE LET E == Ends(re, s, pos)
         IN  IF E = << >> \/ E[1] = pos
             THEN SplitFrom(re, s, pos + 1, start)
             ELSE << SubSeq(s, start + 1, pos) >>
                  \o SplitFrom(re, s, E[1], E[1])

Split(re, s) == SplitFrom(re, s, 0, 0)

----------------------------------------------------------------------------
(* The patterns of the source.                                             *)

\* youtube_meeting_map.py:25
\* \b\d{1,5}\s(?:[NSEW]\s)?(?:\w+\s){1,3}(?:St|Ave|Blvd|Rd|Dr|Ln|Ct|Pl|Way|Terr|Pkwy|Cir)\b
strict_address_pattern ==
    Cat(<< WordBoundary,
           Rep(Chr(Digit), 1, 5),
           Chr(SpaceCh),
           Opt(Cat(<< Chr({"N","S","E","W"}), Chr(SpaceCh) >>)),
           Rep(Cat(<< Rep(Chr(WordCh), 1, -1), Chr(SpaceCh) >>), 1, 3),
           Alt(<< Lit(<<"S","t">>), Lit(<<"A","v","e">>),
                  Lit(<<"B","l","v","d">>), Lit(<<"R","d">>),
                  Lit(<<"D","r">>), Lit(<<"L","n">>), Lit(<<"C","t">>),
                  Lit(<<"P","l">>), Lit(<<"W","a","y">>),
                  Lit(<<"T","e","r","r">>), Lit(<<"P","k","w","y">>),
                  Lit(<<"C","i","r">>) >>),
           WordBoundary >>)

\* main.py:48
\* \d{1,5}\s(?:\d{1,5}\s)?(?:[NSEW]?\s)?[A-Za-z0-9]+(?:\s[A-Za-z0-9]+)*
\* (?:St|Street|Ave|Avenue|Blvd|Road|Rd|Ln|Drive|Dr|Ct|Court|Way|N|S|E|W|NW|NE|SW|SE|Trail)?
\* (?:,\s?[A-Za-z]+(?:,\s?[A-Za-z]{2})?)?
loose_address_pattern ==
    Cat(<< Rep(Chr(Digit), 1, 5),
           Chr(SpaceCh),
           Opt(Cat(<< Rep(Chr(Digit), 1, 5), Chr(SpaceCh) >>)),
           Opt(Cat(<< Opt(Chr({"N","S","E","W"})), Chr(SpaceCh) >>)),
           Rep(Chr(AlNum), 1, -1),
           Rep(Cat(<< Chr(SpaceCh), Rep(Chr(AlNum), 1, -1) >>), 0, -1),
           Opt(Alt(<< Lit(<<"S","t">>), Lit(<<"S","t","r","e","e","t">>),
                      Lit(<<"A","v","e">>), Lit(<<"A","v","e","n","u","e">>),
                      Lit(<<"B","l","v","d">>), Lit(<<"R","o","a","d">>),
                      Lit(<<"R","d">>), Lit(<<"L","n">>),
                      Lit(<<"D","r","i","v","e">>), Lit(<<"D","r">>),
                      Lit(<<"C","t">>), Lit(<<"C","o","u","r","t">>),
                      Lit(<<"W","a","y">>), Lit(<<"N">>), Lit(<<"S">>),
                      Lit(<<"E">>), Lit(<<"W">>), Lit(<<"N","W">>),
                      Lit(<<"N","E">>), Lit(<<"S","W">>), Lit(<<"S","E">>),
                      Lit(<<"T","r","a","i","l">>) >>)),
           Opt(Cat(<< Chr({","}), Opt(Chr(SpaceCh)), Rep(Chr(Alpha), 1, -1),
                      Opt(Cat(<< Chr({","}), Opt(Chr(SpaceCh)),
                                 Rep(Chr(Alpha), 2, 2) >>)) >>)) >>)

\* main.py:56   re.split(r'New Business|Old Business', text, flags=re.IGNORECASE)
business_pattern ==
    Alt(<< LitIgnoreCase(<<"N","e","w"," ","B","u","s","i","n","e","s","s">>),
           LitIgnoreCase(<<"O","l","d"," ","B","u","s","i","n","e","s","s">>) >>)

\* youtube_meeting_map.py:12   (\d{2}/\d{2}/\d{2}) - (.+)
\* "." is any character but a newline
title_pattern ==
    Cat(<< Rep(Chr(Digit), 2, 2), Chr({"/"}), Rep(Chr(Digit), 2, 2), Chr({"/"}),
           Rep(Chr(Digit), 2, 2), Chr({" "}), Chr({"-"}), Chr({" "}),
           Rep([t |-> "dot"], 1, -1) >>)

\* Python's None / a present value
None == << >>
Some(x) == << x >>

\* re.match(pattern, title) and its two groups: (date, meeting_type), or
\* (None, None)
extract_meeting_details(title) ==
    LET E == Ends(title_pattern, title, 0)
    IN  IF E # << >>
        THEN << Some(SubSeq(title, 1, 8)), Some(SubSeq(title, 12, E[1])) >>
        ELSE << None, None >>

----------------------------------------------------------------------------
(* Inputs.                                                                 *)

\* longest list of videos the channel returns
MaxVideos == 3
\* longest list of agenda links the meetings page shows
MaxElements == 3

\* records of the video source: video_id, title, description
Videos ==
    { [video_id |-> "v1",
       title |-> << "1","1","/","2","6","/","2","5"," ","-"," ","B","Z","A" >>,
       description |-> << "9"," ","M","a","i","n"," ","S","t" >>],
      [video_id |-> "v2",
       title |-> << "C","o","u","n","c","i","l" >>,
       description |-> << "9"," ","m","a","i","n"," ","S","t" >>],
      [video_id |-> "v3",
       title |-> << "C","o","u","n","c","i","l" >>,
       description |-> << "9","\t","M","a","i","n"," ","S","t" >>],
      [video_id |-> "v4",
       title |-> << "1","2","/","0","1","/","2","5"," ","-"," ","B","Z","A" >>,
       description |-> << "7"," ","W"," ","O","a","k"," ","R","d","."," ",
                          "9"," ","M","a","i","n"," ","S","t",";"," ",
                          "9"," ","M","a","i","n"," ","S","t" >>],
      [video_id |-> "v5",
       title |-> << "C","o","u","n","c","i","l" >>,
       description |-> << "n","o"," ","a","d","d","r","e","s","s" >>],
      [video_id |-> "v6",
       title |-> << "1","2","/","1","5","/","2","5"," ","-"," ","P","l","a","n" >>,
       description |-> << "A","t"," ","9"," ","M","a","i","n"," ","S","t","." >>] }

\* coordinates the geocoders answer with, in 1/10000 degree
GeoPoints == { << 399500, -858500 >>, << 399700, -858100 >> }

\* what one geocoder lookup does: a coordinate, no result, or a timeout
GeocodeOutcomes ==
    { [kind |-> "found", point |-> p] : p \in GeoPoints }
        \cup { [kind |-> "empty"], [kind |-> "timeout"] }

\* the matches of the strict pattern in each description, and the parsed
\* title of each video (computed once per video)
description_addresses ==
    [v \in Videos |-> Findall(strict_address_pattern, v.description)]
title_details == [v \in Videos |-> extract_meeting_details(v.title)]

SeqsUpTo(S, n) == UNION { [1..k -> S] : k \in 0..n }

\* a number as numerator and denominator
Rat(n, d) == << n, d >>
RatEq(a, b) == a[1] * b[2] = b[1] * a[2]

RECURSIVE Sum(_)
Sum(xs) == IF xs = << >> THEN 0 ELSE Head(xs) + Sum(Tail(xs))

----------------------------------------------------------------------------
(* State.                                                                  *)

VARIABLES
    program,            \* the module that runs
    pc,                 \* position of the one thread of control
    error,              \* the exception that ended the run, "" if none
    fetches,            \* documents and pages fetched so far
    geocode_calls,      \* addresses handed to the geocoder, in call order
    markers,            \* markers added to the map
    location,           \* map.location, None before the map exists
    saved,              \* the map artifact has been written
    api_key,            \* GOOGLE_API_KEY
    video_details,
    description_files,  \* descriptions/<video_id>.txt written
    address_dict,       \* insertion-ordered: sequence of [address, details]
    vi,                 \* group loop: index of the video at hand
    addresses,          \* group loop: matches of that video still to upsert
    ki,                 \* map loop: index of the key at hand
    chrome_exists,      \* os.path.exists(chrome_binary)
    chromedriver_exists,
    driver,             \* "none", "started", "quit"
    elements,
    ei,                 \* agenda loop: index of the element at hand
    meetings,
    pdf_files,          \* static/<basename> written
    ai,                 \* create_map loops: number of the address at hand
    latitudes,
    longitudes,
    text,               \* the text the patterns are applied to
    strict_result,      \* re.findall of the video pattern, None before
    loose_result        \* re.findall of the agenda pattern, None before

runVars == << pc, error, fetches, geocode_calls, markers, location, saved >>
youtubeVars == << api_key, video_details, description_files, address_dict,
                  vi, addresses, ki >>
agendaVars == << chrome_exists, chromedriver_exists, driver, elements, ei,
                 meetings, pdf_files, ai, latitudes, longitudes >>
patternVars == << text, strict_result, loose_result >>
vars == << program, runVars, youtubeVars, agendaVars, patternVars >>

InitRun ==
    /\ error = ""
    /\ fetches = 0
    /\ geocode_calls = << >>
    /\ markers = << >>
    /\ location = None
    /\ saved = FALSE

InitPatternVars ==
    /\ text = << >>
    /\ strict_result = None
    /\ loose_result = None

InitYoutubeVars ==
    /\ video_details = << >>
    /\ description_files = {}
    /\ address_dict = << >>
    /\ vi = 1
    /\ addresses = << >>
    /\ ki = 1

InitAgendaVars ==
    /\ driver = "none"
    /\ elements = << >>
    /\ ei = 1
    /\ meetings = << >>
    /\ pdf_files = {}
    /\ ai = 1
    /\ latitudes = << >>
    /\ longitudes = << >>

----------------------------------------------------------------------------
(* youtube_meeting_map.py                                                  *)

\* index of address among the keys of d, 0 if it is not a key
KeyIndex(d, address) ==
    IF \E k \in DOMAIN d : d[k].address = address
    THEN CHOOSE k \in DOMAIN d : d[k].address = address
    ELSE 0

\* Upsert with the membership test lost: the list under the key is made
\* anew at every mention
Upsert_reset(d, address, detail) ==
    LET d1 == IF KeyIndex(d, address) = 0
              THEN Append(d, [address |-> address, details |-> << >>])
              ELSE [d EXCEPT ![KeyIndex(d, address)].details = << >>]
        k == KeyIndex(d1, address)
    IN  [d1 EXCEPT ![k].details = Append(@, detail)]

\* Upsert that never finds the key: every mention makes an entry of its own
Upsert_duplicate(d, address, detail) ==
    Append(d, [address |-> address, details |-> << detail >>])

\* the body of the inner loop of group_videos_with_short_addresses
Upsert(d, address, detail) ==
    LET d1 == IF KeyIndex(d, address) = 0
              THEN Append(d, [address |-> address, details |-> << >>])
              ELSE d
        k == KeyIndex(d1, address)
    IN  [d1 EXCEPT ![k].details = Append(@, detail)]

base_file_url == "https://github.com/alcho456/fortville-scraper/tree/main/descriptions"

Detail(video) ==
    LET md == title_details[video]
    IN  [date |-> md[1],
         meeting_type |-> md[2],
         video_url |-> << "https://www.youtube.com/watch?v=", video.video_id >>,
         description_file_url |-> << base_file_url, "/", video.video_id, ".txt" >>,
         description |-> video.description]

\* [39.7684, -86.1581], in 1/10000 degree
youtube_default_location == << Rat(397684, 1), Rat(-861581, 1) >>

\* main: the API key is read and checked first
Main_CheckApiKey ==
    /\ pc = "main"
    /\ IF api_key = ""
       THEN /\ error' = "ValueError"
            /\ pc' = "raised"
       ELSE /\ pc' = "fetch_videos"
            /\ UNCHANGED error
    /\ UNCHANGED << fetches, geocode_calls, markers, location, saved >>
    /\ UNCHANGED << program, youtubeVars, agendaVars, patternVars >>

\* fetch_videos_from_videos_tab
FetchVideos ==
    /\ pc = "fetch_videos"
    /\ \E vs \in SeqsUpTo(Videos, MaxVideos) : video_details' = vs
    /\ fetches' = fetches + 1
    /\ pc' = "save_descriptions"
    /\ UNCHANGED << error, geocode_calls, markers, location, saved >>
    /\ UNCHANGED << api_key, description_files, address_dict, vi, addresses, ki >>
    /\ UNCHANGED << program, agendaVars, patternVars >>

\* save_descriptions_to_files
SaveDescriptions ==
    /\ pc = "save_descriptions"
    /\ description_files' =
           { video_details[k].video_id : k \in DOMAIN video_details }
    /\ address_dict' = << >>
    /\ vi' = 1
    /\ pc' = "group"
    /\ UNCHANGED << error, fetches, geocode_calls, markers, location, saved >>
    /\ UNCHANGED << api_key, video_details, addresses, ki >>
    /\ UNCHANGED << program, agendaVars, patternVars >>

\* group_videos_with_short_addresses: the head of one pass of the outer loop,
\* or the return when the videos are used up
GroupScan ==
    /\ pc = "group"
    /\ IF vi <= Len(video_details)
       THEN /\ addresses' =
                   Findall(strict_address_pattern, video_details[vi].description)
            /\ pc' = "upsert"
            /\ UNCHANGED << location, ki >>
       ELSE \* create_map_with_meeting_types builds the map object
            /\ location' = youtube_default_location
            /\ ki' = 1
            /\ pc' = "geocode"
            /\ UNCHANGED addresses
    /\ UNCHANGED << error, fetches, geocode_calls, markers, saved >>
    /\ UNCHANGED << api_key, video_details, description_files, address_dict, vi >>
    /\ UNCHANGED << program, agendaVars, patternVars >>

\* one pass of the inner loop, or its end
GroupUpsert ==
    /\ pc = "upsert"
    /\ IF addresses # << >>
       THEN /\ address_dict' =
                   Upsert(address_dict, Head(addresses), Detail(video_details[vi]))
            /\ addresses' = Tail(addresses)
            /\ UNCHANGED << vi, pc >>
       ELSE /\ vi' = vi + 1
            /\ pc' = "group"
            /\ UNCHANGED << address_dict, addresses >>
    /\ UNCHANGED << error, fetches, geocode_calls, markers, location, saved >>
    /\ UNCHANGED << api_key, video_details, description_files, ki >>
    /\ UNCHANGED << program, agendaVars, patternVars >>

\* geocode_address: (lat, lng) of the first result, or (None, None)
geocode_address(outcome) ==
    IF outcome.kind = "found"
    THEN << Some(outcome.point[1]), Some(outcome.point[2]) >>
    ELSE << None, None >>

\* truth value of an optional number
Truthy(x) == x # None /\ x[1] # 0

Popup(entry) ==
    [address |-> entry.address,
     content |-> [j \in DOMAIN entry.details |->
                     [date |-> entry.details[j].date,
                      meeting_type |-> entry.details[j].meeting_type,
                      video_url |-> entry.details[j].video_url,
                      description_file_url |->
                          entry.details[j].description_file_url]]]

\* create_map_with_meeting_types: one pass of the loop; a timeout of the
\* lookup is an exception nothing catches
MapGeocode ==
    /\ pc = "geocode"
    /\ ki <= Len(address_dict)
    /\ geocode_calls' = Append(geocode_calls, address_dict[ki].address)
    /\ \E outcome \in GeocodeOutcomes :
          IF outcome.kind = "timeout"
          THEN /\ error' = "Timeout"
               /\ pc' = "raised"
               /\ UNCHANGED << markers, ki >>
          ELSE LET ll == geocode_address(outcome)
               IN  /\ markers' =
                          IF Truthy(ll[1]) /\ Truthy(ll[2])
                          THEN Append(markers,
                                      [location |-> << ll[1][1], ll[2][1] >>,
                                       popup |-> Popup(address_dict[ki])])
                          ELSE markers
                   /\ ki' = ki + 1
                   /\ UNCHANGED << error, pc >>
    /\ UNCHANGED << fetches, location, saved >>
    /\ UNCHANGED << api_key, video_details, description_files, address_dict,
                    vi, addresses >>
    /\ UNCHANGED << program, agendaVars, patternVars >>

\* main: meeting_map.save("index.html")
MapSave ==
    /\ pc = "geocode"
    /\ ki > Len(address_dict)
    /\ saved' = TRUE
    /\ pc' = "done"
    /\ UNCHANGED << error, fetches, geocode_calls, markers, location >>
    /\ UNCHANGED << program, youtubeVars, agendaVars, patternVars >>

InitYoutube ==
    /\ program = "youtube_meeting_map"
    /\ pc = "main"
    /\ InitPatternVars
    /\ api_key \in { "", "key" }
    /\ InitRun
    /\ InitYoutubeVars
    /\ InitAgendaVars
    /\ chrome_exists = TRUE
    /\ chromedriver_exists = TRUE

NextYoutube ==
    \/ Main_CheckApiKey
    \/ FetchVideos
    \/ SaveDescriptions
    \/ GroupScan
    \/ GroupUpsert
    \/ MapGeocode
    \/ MapSave

SpecYoutube == InitYoutube /\ [][NextYoutube]_vars

----------------------------------------------------------------------------
(* main.py                                                                 *)

\* the agenda links of the meetings page, each with what the document source
\* answers for its URL: the request raises, or a status code, a Content-Type
\* and, for a PDF, its pages (None: pdfplumber cannot read the file)
Elements ==
    { [label |-> "Download PDF Agenda A", href |-> Some("a.pdf"),
       response |-> [raises |-> FALSE, status_code |-> 200,
                     content_type |-> "application/pdf",
                     pages |-> Some(<< << "N","e","w"," ","B","u","s","i","n","e","s","s",
                          ":"," ","9"," ","M","a","i","n"," ","S","t" >> >>)]],
      [label |-> "Download PDF Agenda B", href |-> Some("b.pdf"),
       response |-> [raises |-> FALSE, status_code |-> 200,
                     content_type |-> "application/pdf",
                     pages |-> Some(<< << >>,
                       << "o","l","d"," ","b","u","s","i","n","e","s","s",
                          " ","9"," ","M","a","i","n"," ","S","t","."," ",
                          "7"," ","O","a","k"," ","R","d",","," ","F","o",
                          "r","t","v","i","l","l","e",","," ","I","N" >> >>)]],
      [label |-> "Download PDF Agenda C", href |-> None,
       response |-> [raises |-> TRUE, status_code |-> 0,
                     content_type |-> "", pages |-> None]],
      [label |-> "Download PDF Agenda D", href |-> Some("d.pdf"),
       response |-> [raises |-> FALSE, status_code |-> 404,
                     content_type |-> "text/html", pages |-> None]],
      [label |-> "Download PDF Agenda E", href |-> Some("e.pdf"),
       response |-> [raises |-> FALSE, status_code |-> 200,
                     content_type |-> "application/pdf", pages |-> None]],
      [label |-> "Download PDF Agenda F", href |-> Some("f.pdf"),
       response |-> [raises |-> FALSE, status_code |-> 200,
                     content_type |-> "text/html", pages |-> None]],
      [label |-> "Download PDF Agenda G", href |-> Some("g.pdf"),
       response |-> [raises |-> TRUE, status_code |-> 0,
                     content_type |-> "", pages |-> None]] }

\* download_pdf: True when the file was written
download_pdf(response) ==
    /\ ~response.raises
    /\ response.status_code = 200
    /\ response.content_type = "application/pdf"

\* the matches in one page: the sections after the first business heading
PageAddresses(page_text) ==
    IF page_text = << >> THEN << >>
    ELSE LET business_text == Split(business_pattern, page_text)
         IN  ConcatAll([k \in 1..(Len(business_text) - 1) |->
                          Findall(loose_address_pattern, business_text[k + 1])])

\* extract_addresses_from_pdf; a file that cannot be opened gives no address
extract_addresses_from_pdf(pages) ==
    IF pages = None THEN << >>
    ELSE ConcatAll([k \in DOMAIN pages[1] |-> PageAddresses(pages[1][k])])

\* the addresses of each agenda (computed once per agenda)
pdf_addresses ==
    [e \in Elements |-> extract_addresses_from_pdf(e.response.pages)]

default_suffix == << ","," ","F","o","r","t","v","i","l","l","e",","," ","I","N" >>

HasComma(address) == \E k \in DOMAIN address : address[k] = ","

\* main.py:127-128
WithLocality(address) ==
    IF ~HasComma(address) THEN address \o default_suffix ELSE address

\* [40.7128, -74.0060], in 1/10000 degree
agenda_default_location == << Rat(407128, 1), Rat(-740060, 1) >>

\* the (agenda, address) pairs in the order the two loops of create_map
\* visit them
RECURSIVE Occurrences(_)
Occurrences(ms) ==
    IF ms = << >> THEN << >>
    ELSE [k \in DOMAIN Head(ms)[3] |->
             [agenda |-> Head(ms)[1], address |-> Head(ms)[3][k]]]
         \o Occurrences(Tail(ms))

\* the mean of the coordinates collected
MeanLocation(lats, lngs) ==
    << Rat(Sum(lats), Len(lats)), Rat(Sum(lngs), Len(lngs)) >>

\* get_meeting_data returns: index goes on to create_map
ReturnMeetings(ms) ==
    /\ meetings' = ms
    /\ pc' = "create_map"

\* get_meeting_data: the two binaries are looked for; the FileNotFoundError
\* is caught at the end of the function, which returns []
GetMeetingData_CheckPaths ==
    /\ pc = "index"
    /\ IF ~chrome_exists \/ ~chromedriver_exists
       THEN ReturnMeetings(<< >>)
       ELSE /\ pc' = "start_driver"
            /\ UNCHANGED meetings
    /\ UNCHANGED << error, fetches, geocode_calls, markers, location, saved >>
    /\ UNCHANGED << chrome_exists, chromedriver_exists, driver, elements, ei,
                    pdf_files, ai, latitudes, longitudes >>
    /\ UNCHANGED << program, youtubeVars, patternVars >>

\* webdriver.Chrome(...): the browser session starts, or the call raises
GetMeetingData_StartDriver ==
    /\ pc = "start_driver"
    /\ \E ok \in BOOLEAN :
          IF ok
          THEN /\ driver' = "started"
               /\ pc' = "driver_get"
               /\ UNCHANGED meetings
          ELSE /\ ReturnMeetings(<< >>)
               /\ UNCHANGED driver
    /\ UNCHANGED << error, fetches, geocode_calls, markers, location, saved >>
    /\ UNCHANGED << chrome_exists, chromedriver_exists, elements, ei,
                    pdf_files, ai, latitudes, longitudes >>
    /\ UNCHANGED << program, youtubeVars, patternVars >>

\* driver.get(url): the page loads, or the call raises
GetMeetingData_LoadPage ==
    /\ pc = "driver_get"
    /\ fetches' = fetches + 1
    /\ \E ok \in BOOLEAN :
          IF ok
          THEN /\ pc' = "wait"
               /\ UNCHANGED meetings
          ELSE ReturnMeetings(<< >>)
    /\ UNCHANGED << error, geocode_calls, markers, location, saved >>
    /\ UNCHANGED << chrome_exists, chromedriver_exists, driver, elements, ei,
                    pdf_files, ai, latitudes, longitudes >>
    /\ UNCHANGED << program, youtubeVars, patternVars >>

\* wait.until(presence_of_all_elements_located(...)): the links found, or
\* TimeoutException after 20 seconds
GetMeetingData_Wait ==
    /\ pc = "wait"
    /\ \/ \E es \in SeqsUpTo(Elements, MaxElements) :
             /\ es # << >>
             /\ elements' = es
             /\ meetings' = << >>
             /\ ei' = 1
             /\ pc' = "agenda_loop"
       \/ /\ ReturnMeetings(<< >>)
          /\ UNCHANGED << elements, ei >>
    /\ UNCHANGED << error, fetches, geocode_calls, markers, location, saved >>
    /\ UNCHANGED << chrome_exists, chromedriver_exists, driver,
                    pdf_files, ai, latitudes, longitudes >>
    /\ UNCHANGED << program, youtubeVars, patternVars >>

\* one pass of the loop over the links.  os.path.basename(None) raises
\* TypeError, which the handler at the end of the function turns into [].
GetMeetingData_Agenda ==
    /\ pc = "agenda_loop"
    /\ ei <= Len(elements)
    /\ LET element == elements[ei]
       IN  IF element.href = None
           THEN /\ ReturnMeetings(<< >>)
                /\ UNCHANGED << fetches, pdf_files, ei >>
           ELSE /\ fetches' = fetches + 1
                /\ IF download_pdf(element.response)
                   THEN /\ pdf_files' = pdf_files \cup { element.href[1] }
                        /\ meetings' = Append(meetings,
                               << element.label, element.href[1],
                                  pdf_addresses[element] >>)
                   ELSE UNCHANGED << pdf_files, meetings >>
                /\ ei' = ei + 1
                /\ UNCHANGED pc
    /\ UNCHANGED << error, geocode_calls, markers, location, saved >>
    /\ UNCHANGED << chrome_exists, chromedriver_exists, driver, elements,
                    ai, latitudes, longitudes >>
    /\ UNCHANGED << program, youtubeVars, patternVars >>

\* the loop is over: driver.quit() and return meetings
GetMeetingData_Quit ==
    /\ pc = "agenda_loop"
    /\ ei > Len(elements)
    /\ driver' = "quit"
    /\ ReturnMeetings(meetings)
    /\ UNCHANGED << error, fetches, geocode_calls, markers, location, saved >>
    /\ UNCHANGED << chrome_exists, chromedriver_exists, elements, ei,
                    pdf_files, ai, latitudes, longitudes >>
    /\ UNCHANGED << program, youtubeVars, patternVars >>

\* create_map: the map object and the two empty lists
CreateMap_Begin ==
    /\ pc = "create_map"
    /\ location' = agenda_default_location
    /\ latitudes' = << >>
    /\ longitudes' = << >>
    /\ ai' = 1
    /\ pc' = "map_loop"
    /\ UNCHANGED << error, fetches, geocode_calls, markers, saved >>
    /\ UNCHANGED << chrome_exists, chromedriver_exists, driver, elements, ei,
                    meetings, pdf_files >>
    /\ UNCHANGED << program, youtubeVars, patternVars >>

\* create_map: one pass of the inner loop
CreateMap_Geocode ==
    /\ pc = "map_loop"
    /\ ai <= Len(Occurrences(meetings))
    /\ LET occ == Occurrences(meetings)[ai]
           address == WithLocality(occ.address)
       IN  /\ geocode_calls' = Append(geocode_calls, address)
           /\ \E outcome \in GeocodeOutcomes :
                 IF outcome.kind = "found"
                 THEN /\ latitudes' = Append(latitudes, outcome.point[1])
                      /\ longitudes' = Append(longitudes, outcome.point[2])
                      /\ markers' = Append(markers,
                             [location |-> outcome.point,
                              popup |-> [agenda |-> occ.agenda,
                                         address |-> address]])
                 ELSE UNCHANGED << latitudes, longitudes, markers >>
    /\ ai' = ai + 1
    /\ UNCHANGED << pc, error, fetches, location, saved >>
    /\ UNCHANGED << chrome_exists, chromedriver_exists, driver, elements, ei,
                    meetings, pdf_files >>
    /\ UNCHANGED << program, youtubeVars, patternVars >>

\* create_map: the center, and map.save
CreateMap_Save ==
    /\ pc = "map_loop"
    /\ ai > Len(Occurrences(meetings))
    /\ location' = IF latitudes # << >> /\ longitudes # << >>
                   THEN MeanLocation(latitudes, longitudes)
                   ELSE agenda_default_location
    /\ saved' = TRUE
    /\ pc' = "render"
    /\ UNCHANGED << error, fetches, geocode_calls, markers >>
    /\ UNCHANGED << program, agendaVars, youtubeVars, patternVars >>

\* index: render_template
Index_Render ==
    /\ pc = "render"
    /\ pc' = "done"
    /\ UNCHANGED << error, fetches, geocode_calls, markers, location, saved >>
    /\ UNCHANGED << program, agendaVars, youtubeVars, patternVars >>

InitAgenda ==
    /\ program = "main"
    /\ pc = "index"
    /\ InitPatternVars
    /\ chrome_exists \in BOOLEAN
    /\ chromedriver_exists \in BOOLEAN
    /\ api_key = ""
    /\ InitRun
    /\ InitYoutubeVars
    /\ InitAgendaVars

NextAgenda ==
    \/ GetMeetingData_CheckPaths
    \/ GetMeetingData_StartDriver
    \/ GetMeetingData_LoadPage
    \/ GetMeetingData_Wait
    \/ GetMeetingData_Agenda
    \/ GetMeetingData_Quit
    \/ CreateMap_Begin
    \/ CreateMap_Geocode
    \/ CreateMap_Save
    \/ Index_Render

SpecAgenda == InitAgenda /\ [][NextAgenda]_vars

----------------------------------------------------------------------------
(* The two address patterns on their own, applied to every short text.     *)

\* longest text the patterns are tried on
MaxTextLen == 6

PatternAlphabet == { "5", " ", "S", "t" }

Texts == SeqsUpTo(PatternAlphabet, MaxTextLen)

\* the matches of each pattern in each text (computed once per text)
strict_matches == [t \in Texts |-> Findall(strict_address_pattern, t)]
loose_matches == [t \in Texts |-> Findall(loose_address_pattern, t)]

\* youtube_meeting_map.py:33
ApplyStrictPattern ==
    /\ pc = "patterns"
    /\ strict_result = None
    /\ strict_result' = Some(strict_matches[text])
    /\ UNCHANGED << program, runVars, youtubeVars, agendaVars, text, loose_result >>

\* main.py:58
ApplyLoosePattern ==
    /\ pc = "patterns"
    /\ loose_result = None
    /\ loose_result' = Some(loose_matches[text])
    /\ UNCHANGED << program, runVars, youtubeVars, agendaVars, text, strict_result >>

InitPattern ==
    /\ program = "patterns"
    /\ pc = "patterns"
    /\ text \in Texts
    /\ strict_result = None
    /\ loose_result = None
    /\ api_key = ""
    /\ chrome_exists = TRUE
    /\ chromedriver_exists = TRUE
    /\ InitRun
    /\ InitYoutubeVars
    /\ InitAgendaVars

NextPattern ==
    \/ ApplyStrictPattern
    \/ ApplyLoosePattern

SpecPattern == InitPattern /\ [][NextPattern]_vars

----------------------------------------------------------------------------
(* Properties.                                                             *)

\* group_videos_with_short_addresses has returned its index
GroupingReturned ==
    /\ program = "youtube_meeting_map"
    /\ \/ pc \in { "geocode", "done" }
       \/ pc = "raised" /\ error = "Timeout"

\* get_meeting_data has returned
MeetingDataReturned ==
    /\ program = "main"
    /\ pc \in { "create_map", "map_loop", "render", "done" }

Keys(d) == { d[k].address : k \in DOMAIN d }

\* every mention of an address in the videos, in processing order: video by
\* video, and within a video match by match
RECURSIVE MentionsFrom(_, _)
MentionsFrom(vs, n) ==
    IF n > Len(vs) THEN << >>
    ELSE [k \in DOMAIN description_addresses[vs[n]] |->
             [address |-> description_addresses[vs[n]][k], video |-> n]]
         \o MentionsFrom(vs, n + 1)

Mentions(vs) == MentionsFrom(vs, 1)

\* the details of the mentions of one address, in that order
RECURSIVE DetailsOf(_, _, _)
DetailsOf(address, vs, ms) ==
    IF ms = << >> THEN << >>
    ELSE (IF Head(ms).address = address
          THEN << Detail(vs[Head(ms).video]) >> ELSE << >>)
         \o DetailsOf(address, vs, Tail(ms))

\* C1: the returned index has exactly one key for each distinct address
\* extracted from the records, and under each key one detail entry per
\* mention of that address, in the order the mentions were processed.
OneKeyPerAddressInRecordOrder ==
    GroupingReturned =>
        LET ms == Mentions(video_details)
        IN  /\ Keys(address_dict) = { ms[k].address : k \in DOMAIN ms }
            /\ Len(address_dict) = Cardinality(Keys(address_dict))
            /\ \A k \in DOMAIN address_dict :
                  address_dict[k].details =
                      DetailsOf(address_dict[k].address, video_details, ms)

\* two records mention one address: one key, two entries, first record first
TwoRecordsUnderOneKey ==
    /\ GroupingReturned
    /\ Len(video_details) = 2
    /\ video_details[1].video_id # video_details[2].video_id
    /\ \E k \in DOMAIN address_dict :
          /\ Len(address_dict[k].details) = 2
          /\ address_dict[k].details[1].description = video_details[1].description
          /\ address_dict[k].details[2].description = video_details[2].description

LowerOf(c) ==
    IF c \in Upper
    THEN LowerSeq[CHOOSE k \in DOMAIN UpperSeq : UpperSeq[k] = c]
    ELSE c

\* surrounding whitespace removed
RECURSIVE Trim(_)
Trim(s) ==
    IF s = << >> THEN s
    ELSE IF Head(s) \in SpaceCh THEN Trim(Tail(s))
    ELSE IF s[Len(s)] \in SpaceCh THEN Trim(SubSeq(s, 1, Len(s) - 1))
    ELSE s

\* every run of inner whitespace turned into one space
RECURSIVE CollapseSpaces(_)
CollapseSpaces(s) ==
    IF s = << >> THEN s
    ELSE IF Head(s) \in SpaceCh
    THEN IF Len(s) > 1 /\ s[2] \in SpaceCh
         THEN CollapseSpaces(Tail(s))
         ELSE << " " >> \o CollapseSpaces(Tail(s))
    ELSE << Head(s) >> \o CollapseSpaces(Tail(s))

\* identity of an address up to letter case and whitespace
Normalized(s) ==
    LET t == CollapseSpaces(Trim(s)) IN [k \in DOMAIN t |-> LowerOf(t[k])]

\* C2 as stated: no two keys of the index are the same address up to letter
\* case and whitespace.
NoTwoKeysEqualUpToCaseAndSpace ==
    \A j, k \in DOMAIN address_dict :
        j # k => Normalized(address_dict[j].address)
                     # Normalized(address_dict[k].address)

\* C2 amended: no two keys of the index are the same string once surrounding
\* whitespace is trimmed (exact comparison otherwise).
NoTwoKeysEqualExactly ==
    \A j, k \in DOMAIN address_dict :
        j # k => Trim(address_dict[j].address) # Trim(address_dict[k].address)

\* one address is upserted a second time while a key that differs from it in
\* letter case only is in the index as well
SameAddressTwiceBesideCaseVariant ==
    /\ program = "youtube_meeting_map"
    /\ \E j, k \in DOMAIN address_dict :
          /\ j # k
          /\ Len(address_dict[j].details) >= 2
          /\ Normalized(address_dict[j].address)
                 = Normalized(address_dict[k].address)

\* C3: a lookup that gives no coordinate or times out never ends the run:
\* every address is looked up and the map is written.
LookupFailureNeverAborts ==
    /\ error # "Timeout"
    /\ pc = "done" =>
          /\ saved
          /\ program = "youtube_meeting_map" =>
                 Len(geocode_calls) = Len(address_dict)
          /\ program = "main" =>
                 Len(geocode_calls) = Len(Occurrences(meetings))

\* C4: no address is handed to the geocoder twice in one run, and at the end
\* of the run each address has been handed to it.
GeocodedOncePerDistinctAddress ==
    /\ \A j, k \in DOMAIN geocode_calls :
          j # k => geocode_calls[j] # geocode_calls[k]
    /\ pc = "done" =>
          /\ program = "youtube_meeting_map" =>
                 { geocode_calls[k] : k \in DOMAIN geocode_calls }
                     = Keys(address_dict)
          /\ program = "main" =>
                 { geocode_calls[k] : k \in DOMAIN geocode_calls }
                     = { WithLocality(Occurrences(meetings)[k].address) :
                            k \in DOMAIN Occurrences(meetings) }

DefaultLocation ==
    IF program = "main" THEN agenda_default_location
    ELSE youtube_default_location

\* C5: at the end of the run the center of the map is the mean of the marker
\* coordinates when there is a marker, and the default coordinate when there
\* is none; before the last lookup it is the coordinate the map was made with.
CenterIsMeanOfMarkers ==
    /\ pc = "done" =>
          IF markers # << >>
          THEN LET lats == [k \in DOMAIN markers |-> markers[k].location[1]]
                   lngs == [k \in DOMAIN markers |-> markers[k].location[2]]
               IN  /\ RatEq(location[1], MeanLocation(lats, lngs)[1])
                   /\ RatEq(location[2], MeanLocation(lats, lngs)[2])
          ELSE location = DefaultLocation
    /\ pc \in { "geocode", "map_loop" } => location = DefaultLocation

\* C6: once get_meeting_data has returned, a browser session that was
\* started has been quit.
DriverQuitOnEveryExit ==
    MeetingDataReturned => driver # "started"

\* C7: with required configuration missing nothing is fetched, nothing is
\* geocoded and no map is written.
MissingConfigurationAborts ==
    LET missing ==
            \/ program = "youtube_meeting_map" /\ api_key = ""
            \/ program = "main" /\ (~chrome_exists \/ ~chromedriver_exists)
    IN  missing => fetches = 0 /\ geocode_calls = << >> /\ ~saved

\* the agendas whose PDF has been downloaded, in discovery order
RECURSIVE Downloaded(_, _)
Downloaded(es, files) ==
    IF es = << >> THEN << >>
    ELSE (IF Head(es).href # None /\ Head(es).href[1] \in files
          THEN << << Head(es).label, Head(es).href[1], pdf_addresses[Head(es)] >> >>
          ELSE << >>)
         \o Downloaded(Tail(es), files)

\* C8: the list get_meeting_data returns holds every agenda that was
\* downloaded, in discovery order, whatever happened to the other agendas.
FailedAgendaSkippedAlone ==
    MeetingDataReturned => meetings = Downloaded(elements, pdf_files)

\* C9: every address handed to the geocoder carries a locality suffix.
GeocodedAddressHasLocality ==
    \A k \in DOMAIN geocode_calls : HasComma(geocode_calls[k])

\* a digit at the start of the text or right after a character that is not a
\* word character
HasDigitLedToken(s) ==
    \E k \in DOMAIN s : s[k] \in Digit /\ (k = 1 \/ s[k - 1] \notin WordCh)

\* C10: on a text without a token that begins with a digit both patterns
\* find nothing.
NoDigitLedTokenNoMatch ==
    ~HasDigitLedToken(text) =>
        /\ strict_result # None => strict_result[1] = << >>
        /\ loose_result # None => loose_result[1] = << >>

====
